---- MODULE Spec2Model ----
(***************************************************************************)
(* A model of the vocabulary bot's reminder engine: the SQLite word store  *)
(* and settings store (database.py), the reminder selector (reminders.py)  *)
(* and the minute scheduler with its in-memory dedup table (scheduler.py). *)
(*                                                                         *)
(* Text is modelled as sequences of one-character strings so that          *)
(* lower(), strip(), split(":") and int() are computed, not assumed.       *)
(* Wall-clock time is sampled at the instants listed in DayTimes.  The     *)
(* bot runs on one asyncio event loop: code between two awaits is atomic   *)
(* with respect to every other handler, and the only await of a tick that  *)
(* suspends it is bot.send_message.                                        *)
(***************************************************************************)
EXTENDS Integers, Sequences, FiniteSets, TLC

VARIABLES
    clock,          \* wall clock: [day, idx], idx an index into DayTimes
    user_settings,  \* table user_settings: user_id -> row | NoRow
    words,          \* table words: a set of rows
    sent_today,     \* ReminderScheduler.sent_today: (user_id, slot) -> date | NoDate
    ticks,          \* running instances of the job _check_and_send_reminders
    sentLog,        \* observer: (key, day) pairs for which Notifier.Send succeeded
    dupLog,         \* observer: (key, day) pairs for which it succeeded more than once
    lastOp,         \* observer: the WordStore / settings call made by the last step
    fired,          \* observer: the instants at which the cron trigger has fired
    failLog         \* observer: the sends that raised, with the tick's date and row

vars == <<clock, user_settings, words, sent_today, ticks, sentLog, dupLog, lastOp,
          fired, failLog>>

----------------------------------------------------------------------------
(* Bounds of the model *)

\* calendar days the clock runs through
MaxDay == 2
\* cap on review_count in the review specification
MaxReviews == 10
\* cap on review_count where timestamps also vary
ShortReviews == 2
Users == {1, 2}             \* user ids with a chat
TickIds == {1, 2}           \* job instances the executor could run
Slots == {"morning", "evening"}
Keys == Users \X Slots
Days == 1..MaxDay

\* Python's None for an Optional[str]: a sequence that is no text
None == <<"None">>
\* An Optional[bool] is a set of at most one boolean: {} is None
NoFlag == {}
Flag(b) == {b}
FlagVal(f) == CHOOSE b \in f : TRUE
\* NULL in a TIMESTAMP column
NoTime == [day |-> 0, idx |-> 0]
NoRow == [morning_time |-> None, evening_time |-> None, reminders_enabled |-> -1]
NoDate == 0
NoOp == [op |-> "none"]

----------------------------------------------------------------------------
(* Text: Python str operations on sequences of characters *)

Digits == {"0", "1", "2", "3", "4", "5", "6", "7", "8", "9"}

DigitVal(c) ==
    CASE c = "0" -> 0 [] c = "1" -> 1 [] c = "2" -> 2 [] c = "3" -> 3
      [] c = "4" -> 4 [] c = "5" -> 5 [] c = "6" -> 6 [] c = "7" -> 7
      [] c = "8" -> 8 [] c = "9" -> 9

IsSpace(c) == c = " "

LowerChar(c) ==
    CASE c = "A" -> "a" [] c = "B" -> "b" [] c = "C" -> "c" [] OTHER -> c

StrLower(s) == [i \in 1..Len(s) |-> LowerChar(s[i])]

RECURSIVE LStrip(_)
LStrip(s) == IF s # <<>> /\ IsSpace(Head(s)) THEN LStrip(Tail(s)) ELSE s

RECURSIVE RStrip(_)
RStrip(s) ==
    IF s # <<>> /\ IsSpace(s[Len(s)]) THEN RStrip(SubSeq(s, 1, Len(s) - 1)) ELSE s

Strip(s) == RStrip(LStrip(s))

\* str.split(":")
RECURSIVE SplitColon(_)
SplitColon(s) ==
    IF \A i \in 1..Len(s) : s[i] # ":"
    THEN <<s>>
    ELSE LET k == CHOOSE i \in 1..Len(s) :
                    s[i] = ":" /\ \A j \in 1..(i - 1) : s[j] # ":"
         IN  <<SubSeq(s, 1, k - 1)>> \o SplitColon(SubSeq(s, k + 1, Len(s)))

RECURSIVE DigitsVal(_)
DigitsVal(s) ==
    IF s = <<>> THEN 0
    ELSE 10 * DigitsVal(SubSeq(s, 1, Len(s) - 1)) + DigitVal(s[Len(s)])

\* int(str): surrounding whitespace and one sign are accepted; ok = FALSE is ValueError
PyInt(s) ==
    LET t == Strip(s)
        signed == t # <<>> /\ t[1] \in {"+", "-"}
        body == IF signed THEN Tail(t) ELSE t
    IN  IF body # <<>> /\ \A i \in 1..Len(body) : body[i] \in Digits
        THEN [ok |-> TRUE,
              val |-> IF signed /\ t[1] = "-" THEN 0 - DigitsVal(body)
                      ELSE DigitsVal(body)]
        ELSE [ok |-> FALSE, val |-> 0]

\* Python truthiness of an Optional[str]
Truthy(s) == s # None /\ s # <<>>

T0900 == <<"0", "9", ":", "0", "0">>
T2000 == <<"2", "0", ":", "0", "0">>
T2359 == <<"2", "3", ":", "5", "9">>
T2400 == <<"2", "4", ":", "0", "0">>

----------------------------------------------------------------------------
(* Wall clock *)

\* Times of day at which the clock is sampled, in order
DayTimes == << <<9, 0>>, <<20, 0>>, <<23, 59>> >>

TimeOfDay(c) == DayTimes[c.idx]

\* An instant as one number, for ordering timestamps
Instant(c) == (c.day - 1) * Len(DayTimes) + c.idx

NextClock(c) ==
    IF c.idx < Len(DayTimes) THEN [c EXCEPT !.idx = @ + 1]
    ELSE [day |-> c.day + 1, idx |-> 1]

----------------------------------------------------------------------------
(* SettingsStore: database.py *)

ValidUserId(uid) == uid \in Int /\ uid > 0

\* A validator that accepts every string
validate_nothing(time_str) == TRUE

validate_time_format(time_str) ==
    LET parts == SplitColon(Strip(time_str))
    IN  IF Len(parts) # 2 THEN FALSE
        ELSE LET hours == PyInt(parts[1])
                 minutes == PyInt(parts[2])
             IN  /\ hours.ok /\ minutes.ok
                 /\ 0 <= hours.val /\ hours.val <= 23
                 /\ 0 <= minutes.val /\ minutes.val <= 59

\* validate_time accepting hour 24
validate_time_hour_24(time_str) ==
    LET parts == SplitColon(Strip(time_str))
    IN  IF Len(parts) # 2 THEN FALSE
        ELSE LET hours == PyInt(parts[1])
                 minutes == PyInt(parts[2])
             IN  /\ hours.ok /\ minutes.ok
                 /\ 0 <= hours.val /\ hours.val <= 24
                 /\ 0 <= minutes.val /\ minutes.val <= 59

\* SettingsManager.validate_time: the ValueError of int() (ok = FALSE) is
\* caught and gives False; no other exception can arise for a string, the
\* list being indexed at 0 and 1 only after its length was found to be 2
validate_time(time_str) ==
    LET parts == SplitColon(Strip(time_str))
    IN  IF Len(parts) # 2 THEN FALSE
        ELSE LET hours == PyInt(parts[1])
                 minutes == PyInt(parts[2])
             IN  /\ hours.ok /\ minutes.ok
                 /\ 0 <= hours.val /\ hours.val <= 23
                 /\ 0 <= minutes.val /\ minutes.val <= 59

DefaultSettings ==
    [morning_time |-> T0900, evening_time |-> T2000, reminders_enabled |-> TRUE]

BoolToInt(b) == IF b THEN 1 ELSE 0
IntToBool(n) == n # 0

\* Returns [ok, db]: the result and the table after the call
update_user_settings(us, user_id, morning_time, evening_time, reminders_enabled) ==
    IF ~ValidUserId(user_id) THEN [ok |-> FALSE, db |-> us]
    ELSE IF Truthy(morning_time) /\ ~validate_time_format(morning_time)
    THEN [ok |-> FALSE, db |-> us]
    ELSE IF Truthy(evening_time) /\ ~validate_time_format(evening_time)
    THEN [ok |-> FALSE, db |-> us]
    ELSE IF us[user_id] # NoRow
    THEN [ok |-> TRUE,
          db |-> [us EXCEPT ![user_id] =
                    [morning_time |->
                        IF Truthy(morning_time) THEN morning_time ELSE @.morning_time,
                     evening_time |->
                        IF Truthy(evening_time) THEN evening_time ELSE @.evening_time,
                     reminders_enabled |->
                        IF reminders_enabled # NoFlag
                        THEN BoolToInt(FlagVal(reminders_enabled))
                        ELSE BoolToInt(IntToBool(@.reminders_enabled))]]]
    ELSE [ok |-> TRUE,
          db |-> [us EXCEPT ![user_id] =
                    [morning_time |->
                        IF Truthy(morning_time) THEN morning_time ELSE T0900,
                     evening_time |->
                        IF Truthy(evening_time) THEN evening_time ELSE T2000,
                     reminders_enabled |->
                        IF reminders_enabled # NoFlag
                        THEN BoolToInt(FlagVal(reminders_enabled)) ELSE 1]]]

\* A read that writes the defaults whether or not the row exists
get_user_settings_resetting(us, user_id) ==
    IF ~ValidUserId(user_id) THEN [res |-> DefaultSettings, db |-> us]
    ELSE [res |-> IF us[user_id] # NoRow
                  THEN [morning_time |-> us[user_id].morning_time,
                        evening_time |-> us[user_id].evening_time,
                        reminders_enabled |-> IntToBool(us[user_id].reminders_enabled)]
                  ELSE DefaultSettings,
          db |-> update_user_settings(us, user_id, T0900, T2000, Flag(TRUE)).db]

\* Returns [res, db]: the settings dict and the table after the call
get_user_settings(us, user_id) ==
    IF ~ValidUserId(user_id) THEN [res |-> DefaultSettings, db |-> us]
    ELSE IF us[user_id] # NoRow
    THEN [res |-> [morning_time |-> us[user_id].morning_time,
                   evening_time |-> us[user_id].evening_time,
                   reminders_enabled |-> IntToBool(us[user_id].reminders_enabled)],
          db |-> us]
    ELSE [res |-> DefaultSettings,
          db |-> update_user_settings(us, user_id, T0900, T2000, Flag(TRUE)).db]

----------------------------------------------------------------------------
(* WordStore: database.py *)

UserRows(ws, user_id) == {r \in ws : r.user_id = user_id}

OptStrip(s) == IF Truthy(s) THEN Strip(s) ELSE None

\* ORDER BY created_at DESC; the query leaves the order of equal timestamps open
RECURSIVE NewestFirst(_)
NewestFirst(S) ==
    IF S = {} THEN <<>>
    ELSE LET r == CHOOSE x \in S :
                    \A y \in S : Instant(x.created_at) >= Instant(y.created_at)
         IN  <<r>> \o NewestFirst(S \ {r})

\* The list of (english, russian, transcription, topic), newest first
get_user_words(ws, user_id) ==
    IF ~ValidUserId(user_id) THEN <<>>
    ELSE LET rows == NewestFirst(UserRows(ws, user_id))
         IN  [i \in 1..Len(rows) |-> <<rows[i].english, rows[i].russian,
                                        rows[i].transcription, rows[i].topic>>]

\* An upsert that merges: the new fields over the old row's history
InsertKeepingHistory(ws, row) ==
    LET old == {r \in ws : r.user_id = row.user_id /\ r.english = row.english}
    IN  IF old = {} THEN ws \cup {row}
        ELSE (ws \ old) \cup {[r EXCEPT !.russian = row.russian,
                                         !.transcription = row.transcription,
                                         !.topic = row.topic] : r \in old}

\* INSERT OR REPLACE: rows conflicting on UNIQUE(user_id, english) are deleted first
InsertOrReplace(ws, row) ==
    {r \in ws : ~(r.user_id = row.user_id /\ r.english = row.english)} \cup {row}

\* Returns [ok, db]
add_word(ws, now, user_id, english, russian, transcription, topic) ==
    IF ~Truthy(english) \/ ~Truthy(russian) THEN [ok |-> FALSE, db |-> ws]
    ELSE [ok |-> TRUE,
          db |-> InsertOrReplace(ws,
                    [user_id |-> user_id,
                     english |-> Strip(StrLower(english)),
                     russian |-> Strip(russian),
                     transcription |-> OptStrip(transcription),
                     topic |-> OptStrip(topic),
                     created_at |-> now,
                     last_reviewed_at |-> NoTime,
                     review_count |-> 0,
                     difficulty |-> 1])]

\* Returns [ok, db]
delete_word(ws, user_id, english) ==
    IF ~ValidUserId(user_id) THEN [ok |-> FALSE, db |-> ws]
    ELSE IF ~Truthy(english) \/ ~Truthy(Strip(english)) THEN [ok |-> FALSE, db |-> ws]
    ELSE LET hit == {r \in ws : r.user_id = user_id
                                 /\ r.english = Strip(StrLower(english))}
         IN  [ok |-> hit # {}, db |-> ws \ hit]

Max(a, b) == IF a >= b THEN a ELSE b
Min(a, b) == IF a <= b THEN a ELSE b

\* The adjustment without its clamps
new_difficulty_unclamped(difficulty, correct) ==
    IF correct THEN difficulty - 1 ELSE difficulty + 1

new_difficulty(difficulty, correct) ==
    IF correct THEN Max(1, difficulty - 1) ELSE Min(10, difficulty + 1)

\* The review with an UPDATE that leaves user_id out of its WHERE
mark_word_reviewed_any_user(ws, now, user_id, english, correct) ==
    LET hit == {r \in ws : r.user_id = user_id /\ r.english = StrLower(english)}
        upd == {r \in ws : r.english = StrLower(english)}
    IN  IF hit = {} THEN [ok |-> FALSE, db |-> ws]
        ELSE LET fetched == CHOOSE r \in hit : TRUE
                 nd == new_difficulty(fetched.difficulty, correct)
             IN  [ok |-> TRUE,
                  db |-> (ws \ upd) \cup
                         {[r EXCEPT !.last_reviewed_at = now,
                                    !.review_count = @ + 1,
                                    !.difficulty = nd] : r \in upd}]

\* The review with a wrong answer starting the count again
mark_word_reviewed_resetting(ws, now, user_id, english, correct) ==
    LET hit == {r \in ws : r.user_id = user_id /\ r.english = StrLower(english)}
    IN  IF hit = {} THEN [ok |-> FALSE, db |-> ws]
        ELSE LET fetched == CHOOSE r \in hit : TRUE
                 nd == new_difficulty(fetched.difficulty, correct)
             IN  [ok |-> TRUE,
                  db |-> (ws \ hit) \cup
                         {[r EXCEPT !.last_reviewed_at = now,
                                    !.review_count = IF correct THEN @ + 1 ELSE 0,
                                    !.difficulty = nd] : r \in hit}]

\* The review that matches the word after trimming it, as add_word stores it
mark_word_reviewed_trimming(ws, now, user_id, english, correct) ==
    LET hit == {r \in ws : r.user_id = user_id /\ r.english = Strip(StrLower(english))}
    IN  IF hit = {} THEN [ok |-> FALSE, db |-> ws]
        ELSE LET fetched == CHOOSE r \in hit : TRUE
                 nd == new_difficulty(fetched.difficulty, correct)
             IN  [ok |-> TRUE,
                  db |-> (ws \ hit) \cup
                         {[r EXCEPT !.last_reviewed_at = now,
                                    !.review_count = @ + 1,
                                    !.difficulty = nd] : r \in hit}]

\* Returns [ok, db]
mark_word_reviewed(ws, now, user_id, english, correct) ==
    LET hit == {r \in ws : r.user_id = user_id /\ r.english = StrLower(english)}
    IN  IF hit = {} THEN [ok |-> FALSE, db |-> ws]
        ELSE LET fetched == CHOOSE r \in hit : TRUE
                 nd == new_difficulty(fetched.difficulty, correct)
             IN  [ok |-> TRUE,
                  db |-> (ws \ hit) \cup
                         {[r EXCEPT !.last_reviewed_at = now,
                                    !.review_count = @ + 1,
                                    !.difficulty = nd] : r \in hit}]

\* DATE(ts) of a CURRENT_TIMESTAMP, which sqlite keeps in UTC, on a host whose
\* local time is utc_offset hours ahead of UTC
UtcDate(ts, utc_offset) ==
    LET hour == DayTimes[ts.idx][1] - utc_offset
    IN  IF hour < 0 THEN ts.day - 1
        ELSE IF hour >= 24 THEN ts.day + 1
        ELSE ts.day

RECURSIVE SumDifficulty(_)
SumDifficulty(S) ==
    IF S = {} THEN 0
    ELSE LET r == CHOOSE x \in S : TRUE
         IN  r.difficulty + SumDifficulty(S \ {r})

\* round(float(n / d), 1) in tenths, n / d >= 0
RoundTenths(n, d) ==
    LET q == (10 * n) \div d
        rem == (10 * n) % d
    IN  IF 2 * rem < d THEN q
        ELSE IF 2 * rem > d THEN q + 1
        ELSE IF q % 2 = 0 THEN q ELSE q + 1

\* The readiness test without its never-reviewed start value
ready_reviewed_only(total_words, never_reviewed, reviewed_today) ==
    total_words > 0 /\ reviewed_today < total_words \div 3

ready_for_reminder(total_words, never_reviewed, reviewed_today) ==
    \/ never_reviewed > 0
    \/ total_words > 0 /\ reviewed_today < total_words \div 3

\* The stats dict; avg_difficulty in tenths. now is the local clock
get_reminder_stats(ws, now, utc_offset, user_id) ==
    LET rows == UserRows(ws, user_id)
        total_words == Cardinality(rows)
        never_reviewed == Cardinality({r \in rows : r.last_reviewed_at = NoTime})
        today == now.day
        reviewed_today ==
            Cardinality({r \in rows : /\ r.last_reviewed_at # NoTime
                                      /\ UtcDate(r.last_reviewed_at, utc_offset) = today})
        avg_difficulty == IF total_words = 0 THEN 10
                          ELSE RoundTenths(SumDifficulty(rows), total_words)
    IN  [total_words |-> total_words,
         never_reviewed |-> never_reviewed,
         reviewed_today |-> reviewed_today,
         avg_difficulty |-> avg_difficulty,
         ready_for_reminder |->
            ready_for_reminder(total_words, never_reviewed, reviewed_today)]

----------------------------------------------------------------------------
(* The reminder queries of database.py and ReminderSystem.get_reminder_words *)

\* a < b for two tuples of integers of one length, as ORDER BY compares rows
LexLess(a, b) ==
    \E i \in 1..Len(a) : a[i] < b[i] /\ \A j \in 1..(i - 1) : a[j] = b[j]

\* Every listing of the rows S in the order of their keys; rows with equal
\* keys may come in either order, the query leaving it open
RECURSIVE Orderings(_, _)
Orderings(S, key) ==
    IF S = {} THEN {<<>>}
    ELSE UNION {{<<r>> \o rest : rest \in Orderings(S \ {r}, key)} :
                    r \in {x \in S : \A y \in S : ~LexLess(key[y], key[x])}}

\* LIMIT n; a negative n is no limit in sqlite
Limit(seq, n) ==
    IF n < 0 \/ n >= Len(seq) THEN seq ELSE SubSeq(seq, 1, n)

\* SELECT english, russian
Pairs(rows) == [i \in 1..Len(rows) |-> <<rows[i].english, rows[i].russian>>]

Query(ws, user_id, key, limit) ==
    {Pairs(Limit(rows, limit)) : rows \in Orderings(UserRows(ws, user_id), key)}

\* ORDER BY created_at DESC
RecentKey(ws) == [r \in ws |-> <<0 - Instant(r.created_at)>>]

\* ORDER BY CASE WHEN last_reviewed_at IS NULL THEN 0 ELSE 1 END,
\*          last_reviewed_at ASC, created_at ASC
OldKey(ws) ==
    [r \in ws |-> <<IF r.last_reviewed_at = NoTime THEN 0 ELSE 1,
                    Instant(r.last_reviewed_at), Instant(r.created_at)>>]

\* The old-words order with the last review descending
OldKeyNewestFirst(ws) ==
    [r \in ws |-> <<IF r.last_reviewed_at = NoTime THEN 0 ELSE 1,
                    0 - Instant(r.last_reviewed_at), Instant(r.created_at)>>]

\* ORDER BY difficulty DESC, review_count ASC
DifficultKey(ws) == [r \in ws |-> <<0 - r.difficulty, r.review_count>>]

\* The sets of lists each query can return
get_recent_words(ws, user_id, limit) == Query(ws, user_id, RecentKey(ws), limit)

get_old_words_newest_first(ws, user_id, limit) ==
    Query(ws, user_id, OldKeyNewestFirst(ws), limit)

get_old_words(ws, user_id, limit) == Query(ws, user_id, OldKey(ws), limit)

get_difficult_words(ws, user_id, limit) == Query(ws, user_id, DifficultKey(ws), limit)

----------------------------------------------------------------------------
(* ReminderSelector and the slot messages *)

NoWordsText == "no_words"
WordsText == "words"

\* The text of a slot's reminder: it carries the no-words marker exactly when
\* the selection for the user is empty
get_slot_reminder_message(ws, user_id, slot) ==
    IF UserRows(ws, user_id) = {} THEN NoWordsText ELSE WordsText

\* scheduler.py: text and "no words" marker not in text
Sendable(text) == text # NoWordsText

----------------------------------------------------------------------------
(* ReminderScheduler: scheduler.py *)

\* _parse_time raises ValueError inside its try (lines 26-32) and so returns
\* the default of line 36
parse_time_falls_back(time_str) ==
    LET parts == SplitColon(time_str)
    IN  \/ Len(parts) # 2
        \/ ~PyInt(parts[1]).ok
        \/ ~PyInt(parts[2]).ok
        \/ ~(0 <= PyInt(parts[1]).val /\ PyInt(parts[1]).val <= 23)
        \/ ~(0 <= PyInt(parts[2]).val /\ PyInt(parts[2]).val <= 59)

\* _parse_time with the evening's usual hour as its default
parse_time_default_2000(time_str) ==
    LET parts == SplitColon(time_str)
    IN  IF Len(parts) # 2 THEN <<20, 0>>
        ELSE LET hour == PyInt(parts[1])
                 minute == PyInt(parts[2])
             IN  IF /\ hour.ok /\ minute.ok
                    /\ 0 <= hour.val /\ hour.val <= 23
                    /\ 0 <= minute.val /\ minute.val <= 59
                 THEN <<hour.val, minute.val>>
                 ELSE <<20, 0>>

parse_time(time_str) ==
    LET parts == SplitColon(time_str)
    IN  IF Len(parts) # 2 THEN <<9, 0>>
        ELSE LET hour == PyInt(parts[1])
                 minute == PyInt(parts[2])
             IN  IF /\ hour.ok /\ minute.ok
                    /\ 0 <= hour.val /\ hour.val <= 23
                    /\ 0 <= minute.val /\ minute.val <= 59
                 THEN <<hour.val, minute.val>>
                 ELSE <<9, 0>>

\* A job instance: its place in the loop (pc, i, slot), the locals of
\* _check_and_send_reminders (now, today, users), the date the send routine in
\* flight read (sr_today), and the keys whose send was logged as an error
IdleTick ==
    [pc |-> "idle", now |-> <<0, 0>>, today |-> NoDate, users |-> <<>>,
     i |-> 0, slot |-> "morning", sr_today |-> NoDate, failed |-> {}]

RECURSIVE SortedSeq(_)
SortedSeq(S) ==
    IF S = {} THEN <<>>
    ELSE LET m == CHOOSE x \in S : \A y \in S : x <= y
         IN  <<m>> \o SortedSeq(S \ {m})

\* The SELECT without its WHERE clause
LoadAllRows(us) ==
    LET ids == SortedSeq({u \in DOMAIN us : us[u] # NoRow})
    IN  [n \in 1..Len(ids) |->
            [user_id |-> ids[n],
             morning_time |-> us[ids[n]].morning_time,
             evening_time |-> us[ids[n]].evening_time]]

\* SELECT ... FROM user_settings WHERE reminders_enabled = 1 (rowid order)
LoadUsers(us) ==
    LET ids == SortedSeq({u \in DOMAIN us : us[u] # NoRow /\ us[u].reminders_enabled = 1})
    IN  [n \in 1..Len(ids) |->
            [user_id |-> ids[n],
             morning_time |-> us[ids[n]].morning_time,
             evening_time |-> us[ids[n]].evening_time]]

\* APScheduler's default for a job added without max_instances
max_instances == 1

Running == {t \in TickIds : ticks[t].pc # "idle"}

\* No coroutine is between two awaits: other handlers and timers may run
Quiescent == \A t \in TickIds : ticks[t].pc # "run"

NextPos(tk) ==
    IF tk.slot = "morning" THEN [tk EXCEPT !.slot = "evening"]
    ELSE [tk EXCEPT !.i = @ + 1, !.slot = "morning"]

CurKey(tk) == <<tk.users[tk.i].user_id, tk.slot>>

SlotTime(tk) ==
    parse_time(IF tk.slot = "morning" THEN tk.users[tk.i].morning_time
               ELSE tk.users[tk.i].evening_time)

\* Due without the comparison of the times
DueAnyTime(tk) == sent_today[CurKey(tk)] # tk.today

\* The loop's own test, lines 138-140 / 144-146
Due(tk) == tk.now = SlotTime(tk) /\ sent_today[CurKey(tk)] # tk.today

\* An executor that starts every instance
CanStartAlways == TRUE

\* The executor starts an instance of the job unless max_instances are running
CanStart == Cardinality(Running) < max_instances

\* An instance of the job begins: lines 107-126
LaunchJob(t) ==
    /\ Quiescent
    /\ ticks[t].pc = "idle"
    /\ \A s \in TickIds : s < t => ticks[s].pc # "idle"
    /\ ticks' = [ticks EXCEPT ![t] =
                    [pc |-> "run", now |-> TimeOfDay(clock), today |-> clock.day,
                     users |-> LoadUsers(user_settings),
                     i |-> 1, slot |-> "morning", sr_today |-> NoDate,
                     failed |-> {}]]
    /\ lastOp' = NoOp
    /\ UNCHANGED <<clock, user_settings, words, sent_today, sentLog, dupLog>>

Launch(t) == LaunchJob(t) /\ UNCHANGED <<fired, failLog>>

\* The trigger fires: the executor starts an instance if it may
TickStart(t) == CanStart /\ Launch(t)

\* The send routine trusting the list the job loaded, without lines 42-44
WillSendUnchecked(tk) ==
    LET uid == tk.users[tk.i].user_id
        today == clock.day
    IN  /\ sent_today[CurKey(tk)] # today
        /\ Sendable(get_slot_reminder_message(words, uid, tk.slot))

\* The send routine up to its await (lines 40-55): TRUE when it goes on to
\* bot.send_message
WillSend(tk) ==
    LET uid == tk.users[tk.i].user_id
        settings == get_user_settings(user_settings, uid).res
        today == clock.day
    IN  /\ settings.reminders_enabled
        /\ sent_today[CurKey(tk)] # today
        /\ Sendable(get_slot_reminder_message(words, uid, tk.slot))

\* One slot of one user of the loop, lines 128-150, with the send routine up to
\* its await
CheckSlot(t) ==
    LET tk == ticks[t]
    IN  /\ tk.pc = "run"
        /\ tk.i <= Len(tk.users)
        /\ IF Due(tk)
           THEN /\ user_settings' =
                      get_user_settings(user_settings, tk.users[tk.i].user_id).db
                /\ IF WillSend(tk)
                   THEN ticks' = [ticks EXCEPT ![t] =
                                    [tk EXCEPT !.pc = "await", !.sr_today = clock.day]]
                   ELSE ticks' = [ticks EXCEPT ![t] = NextPos(tk)]
           ELSE /\ ticks' = [ticks EXCEPT ![t] = NextPos(tk)]
                /\ UNCHANGED user_settings
        /\ lastOp' = NoOp
        /\ UNCHANGED <<clock, words, sent_today, sentLog, dupLog, fired, failLog>>

\* A purge that drops every entry
PurgeAll(st, today) == [k \in DOMAIN st |-> NoDate]

\* A job that ends without its purge
PurgeNothing(st, today) == st

PurgeOld(st, today) ==
    [k \in DOMAIN st |-> IF st[k] # NoDate /\ st[k] < today THEN NoDate ELSE st[k]]

\* Lines 152-158, and the end of the job
TickEnd(t) ==
    LET tk == ticks[t]
    IN  /\ tk.pc = "run"
        /\ tk.i > Len(tk.users)
        /\ sent_today' = PurgeOld(sent_today, tk.today)
        /\ ticks' = [ticks EXCEPT ![t] = IdleTick]
        /\ lastOp' = NoOp
        /\ UNCHANGED <<clock, user_settings, words, sentLog, dupLog, fired, failLog>>

\* A send that leaves no entry
RecordNothing(st, key, today) == st

RecordSent(st, key, today) == [st EXCEPT ![key] = today]

\* The entry written whether or not send_message returned
AfterSendAlways(st, key, today, ok) == RecordSent(st, key, today)

\* Lines 56-57 / 80-81: the entry is written once send_message has returned
AfterSend(st, key, today, ok) == IF ok THEN RecordSent(st, key, today) ELSE st

\* An exception that leaves the loop: the job passes over the remaining users
AfterRoutineAbort(tk, ok) ==
    IF ok THEN [NextPos(tk) EXCEPT !.pc = "run", !.sr_today = NoDate]
    ELSE [tk EXCEPT !.pc = "run", !.sr_today = NoDate, !.slot = "morning",
                    !.i = Len(tk.users) + 1, !.failed = @ \cup {CurKey(tk)}]

\* A loop that examines the slot again after a send that raised
AfterRoutineRetry(tk, ok) ==
    IF ok THEN [NextPos(tk) EXCEPT !.pc = "run", !.sr_today = NoDate]
    ELSE [tk EXCEPT !.pc = "run", !.sr_today = NoDate, !.failed = @ \cup {CurKey(tk)}]

\* Lines 59-60 / 83-84: the routine logs the exception of send_message and
\* returns, and the loop goes on with the next slot
AfterRoutine(tk, ok) ==
    [NextPos(tk) EXCEPT !.pc = "run", !.sr_today = NoDate,
                        !.failed = IF ok THEN @ ELSE @ \cup {CurKey(tk)}]

\* bot.send_message returns (ok) or raises
SendReturns(t, ok) ==
    LET tk == ticks[t]
        key == CurKey(tk)
    IN  /\ Quiescent
        /\ tk.pc = "await"
        /\ sent_today' = AfterSend(sent_today, key, tk.sr_today, ok)
        /\ sentLog' = IF ok THEN sentLog \cup {<<key, tk.sr_today>>} ELSE sentLog
        /\ dupLog' = IF ok /\ <<key, tk.sr_today>> \in sentLog
                     THEN dupLog \cup {<<key, tk.sr_today>>} ELSE dupLog
        /\ ticks' = [ticks EXCEPT ![t] = AfterRoutine(tk, ok)]
        /\ lastOp' = [op |-> "send_message", key |-> key, day |-> tk.sr_today,
                      ok |-> ok]
        /\ UNCHANGED <<clock, user_settings, words>>

SendComplete(t, ok) == SendReturns(t, ok) /\ UNCHANGED <<fired, failLog>>

----------------------------------------------------------------------------
(* The environment: the passing of time and the bot's handlers *)

AdvanceClock ==
    /\ Quiescent
    /\ NextClock(clock).day <= MaxDay
    /\ clock' = NextClock(clock)
    /\ lastOp' = NoOp
    /\ UNCHANGED <<user_settings, words, sent_today, ticks, sentLog, dupLog, fired, failLog>>

UpdateUserSettings(obs, user_id, morning_time, evening_time, reminders_enabled) ==
    LET r == update_user_settings(user_settings, user_id, morning_time,
                                  evening_time, reminders_enabled)
    IN  /\ Quiescent
        /\ user_settings' = r.db
        /\ lastOp' = IF obs THEN [op |-> "update_user_settings", user_id |-> user_id,
                      morning_time |-> morning_time, evening_time |-> evening_time,
                      reminders_enabled |-> reminders_enabled, ok |-> r.ok] ELSE NoOp
        /\ UNCHANGED <<clock, words, sent_today, ticks, sentLog, dupLog, fired, failLog>>

GetUserSettings(obs, user_id) ==
    LET r == get_user_settings(user_settings, user_id)
    IN  /\ Quiescent
        /\ user_settings' = r.db
        /\ lastOp' = IF obs THEN [op |-> "get_user_settings", user_id |-> user_id, res |-> r.res] ELSE NoOp
        /\ UNCHANGED <<clock, words, sent_today, ticks, sentLog, dupLog, fired, failLog>>

AddWord(obs, user_id, english, russian, transcription, topic) ==
    LET r == add_word(words, clock, user_id, english, russian, transcription, topic)
    IN  /\ Quiescent
        /\ words' = r.db
        /\ lastOp' = IF obs THEN [op |-> "add_word", user_id |-> user_id, english |-> english,
                      russian |-> russian, transcription |-> transcription,
                      topic |-> topic, ok |-> r.ok,
                      before |-> {w \in words : w.user_id = user_id
                                      /\ w.english = Strip(StrLower(english))}]
                     ELSE NoOp
        /\ UNCHANGED <<clock, user_settings, sent_today, ticks, sentLog, dupLog, fired, failLog>>

DeleteWord(obs, user_id, english) ==
    LET r == delete_word(words, user_id, english)
    IN  /\ Quiescent
        /\ words' = r.db
        /\ lastOp' = IF obs THEN [op |-> "delete_word", user_id |-> user_id,
                      english |-> english, ok |-> r.ok] ELSE NoOp
        /\ UNCHANGED <<clock, user_settings, sent_today, ticks, sentLog, dupLog, fired, failLog>>

GetUserWords(obs, user_id) ==
    /\ Quiescent
    /\ lastOp' = IF obs THEN [op |-> "get_user_words", user_id |-> user_id,
                              res |-> get_user_words(words, user_id)] ELSE NoOp
    /\ UNCHANGED <<clock, user_settings, words, sent_today, ticks, sentLog, dupLog, fired, failLog>>

GetReminderStats(obs, user_id, utc_offset) ==
    /\ Quiescent
    /\ lastOp' = IF obs THEN [op |-> "get_reminder_stats", user_id |-> user_id,
                              utc_offset |-> utc_offset,
                              res |-> get_reminder_stats(words, clock, utc_offset,
                                                         user_id)] ELSE NoOp
    /\ UNCHANGED <<clock, user_settings, words, sent_today, ticks, sentLog, dupLog, fired, failLog>>

MarkReviewed(obs, user_id, english, correct) ==
    LET r == mark_word_reviewed(words, clock, user_id, english, correct)
    IN  /\ Quiescent
        /\ words' = r.db
        /\ lastOp' = IF obs THEN [op |-> "mark_word_reviewed", user_id |-> user_id,
                      english |-> english, correct |-> correct, ok |-> r.ok] ELSE NoOp
        /\ UNCHANGED <<clock, user_settings, sent_today, ticks, sentLog, dupLog, fired, failLog>>

----------------------------------------------------------------------------
(* Specification of the scheduler with its environment *)

\* Inputs of the handlers in the scheduler's specification
SchedTimes == {None, T2359, T2400}
SchedFlags == {NoFlag, Flag(TRUE), Flag(FALSE)}
SchedUsers == {1}
WordA == <<"a">>
RussianX == <<"x">>

InitClock == clock = [day |-> 1, idx |-> 1]

Init ==
    /\ InitClock
    /\ user_settings = [u \in Users |-> NoRow]
    /\ words = {}
    /\ sent_today = [k \in Keys |-> NoDate]
    /\ ticks = [t \in TickIds |-> IdleTick]
    /\ sentLog = {}
    /\ dupLog = {}
    /\ lastOp = NoOp
    /\ fired = {}
    /\ failLog = {}

Next ==
    \/ \E t \in TickIds : TickStart(t)
    \/ \E t \in TickIds : CheckSlot(t)
    \/ \E t \in TickIds : TickEnd(t)
    \/ \E t \in TickIds, ok \in BOOLEAN : SendComplete(t, ok)
    \/ AdvanceClock
    \/ \E u \in SchedUsers, m \in SchedTimes, e \in SchedTimes, en \in SchedFlags :
            UpdateUserSettings(FALSE, u, m, e, en)
    \/ \E u \in SchedUsers : GetUserSettings(FALSE, u)
    \/ \E u \in SchedUsers : AddWord(FALSE, u, WordA, RussianX, None, None)
    \/ \E u \in SchedUsers : DeleteWord(FALSE, u, WordA)

Spec == Init /\ [][Next]_vars

----------------------------------------------------------------------------
(* Properties of the scheduler *)

\* The store's answer to "are reminders enabled for this user"
Enabled(u) == user_settings[u] # NoRow /\ user_settings[u].reminders_enabled = 1

\* The slot's word selection for the user is not empty
SelectionNonEmpty(u, slot) ==
    get_slot_reminder_message(words, u, slot) # NoWordsText

\* Tick t is about to examine the slot of key k
AtSlot(t, k) ==
    /\ ticks[t].pc = "run"
    /\ ticks[t].i <= Len(ticks[t].users)
    /\ CurKey(ticks[t]) = k

\* The three conditions of the dedup state machine, as tick t sees them: the
\* minute in which the tick started equals the slot time it loaded, the user
\* is enabled, and the table records neither the tick's date nor the date now
ThreeConditions(t, k) ==
    /\ Enabled(k[1])
    /\ ticks[t].now = SlotTime(ticks[t])
    /\ sent_today[k] # ticks[t].today
    /\ sent_today[k] # clock.day

\* The entry of key k goes to Sent(some date)
Transition(k) == sent_today'[k] # sent_today[k] /\ sent_today'[k] # NoDate

\* C1: for every (user, slot) and every calendar day, at most one send
\* succeeds, whatever ticks, settings updates and word operations interleave
C1_AtMostOneSendPerDay == \A k \in Keys, d \in Days : <<k, d>> \notin dupLog

\* C1 witness: a tick examines a slot whose time matches, for an enabled user
\* with words, on a day on which that slot's reminder was already delivered
C1_Witness ==
    \E t \in TickIds, k \in Keys :
        /\ AtSlot(t, k)
        /\ Enabled(k[1]) /\ SelectionNonEmpty(k[1], k[2])
        /\ ticks[t].now = SlotTime(ticks[t])
        /\ ticks[t].today = clock.day
        /\ <<k, clock.day>> \in sentLog

C2_Key == <<1, "morning">>

\* Tick t, started at 09:00 of the current day, examines the morning slot of a
\* user whose morning_time is 09:00 and whose reminders are enabled
C2_TickAt0900(t) ==
    /\ AtSlot(t, C2_Key)
    /\ ticks[t].now = <<9, 0>> /\ ticks[t].today = clock.day
    /\ ticks[t].users[ticks[t].i].morning_time = T0900
    /\ user_settings[1].morning_time = T0900
    /\ Enabled(1)

\* C2 as stated: a tick at 09:00 on a day without a delivered morning reminder
\* triggers the send, and once it is delivered no tick of that day sends again
C2_Original ==
    [][\A t \in TickIds :
        /\ (C2_TickAt0900(t) /\ <<C2_Key, clock.day>> \notin sentLog
                /\ ticks'[t] # ticks[t]
            => ticks'[t].pc = "await")
        /\ (AtSlot(t, C2_Key) /\ <<C2_Key, clock.day>> \in sentLog
            => ticks'[t].pc # "await")]_vars

\* C2 (amended): for a user with morning_time 09:00, reminders enabled and a
\* non-empty word selection, a tick at 09:00 on a day without a delivered
\* morning reminder triggers one send dated that day (so also on the following
\* day); once a send of the day has succeeded no tick of that day sends again
C2_DedupScenario ==
    [][\A t \in TickIds :
        /\ (C2_TickAt0900(t) /\ SelectionNonEmpty(1, "morning")
                /\ <<C2_Key, clock.day>> \notin sentLog
                /\ ticks'[t] # ticks[t]
            => ticks'[t].pc = "await" /\ ticks'[t].sr_today = clock.day)
        /\ (AtSlot(t, C2_Key) /\ <<C2_Key, clock.day>> \in sentLog
            => ticks'[t].pc # "await")]_vars

\* C2 witness: the send of the following day is in flight
C2_Witness ==
    \E t \in TickIds :
        /\ ticks[t].pc = "await" /\ CurKey(ticks[t]) = C2_Key
        /\ ticks[t].now = <<9, 0>> /\ ticks[t].sr_today = 2
        /\ <<C2_Key, 1>> \in sentLog

\* The transition happens only out of a send that a tick issued with the three
\* conditions holding, and it records the date the send routine read
C3_OnlyIf ==
    /\ \A k \in Keys : Transition(k) =>
            \E t \in TickIds : /\ ticks[t].pc = "await" /\ CurKey(ticks[t]) = k
                               /\ sent_today'[k] = ticks[t].sr_today
    /\ \A t \in TickIds : ticks[t].pc = "run" /\ ticks'[t].pc = "await" =>
            ThreeConditions(t, CurKey(ticks[t]))

\* C3 as stated: the transition Idle -> Sent(today) occurs in a tick exactly
\* when the three conditions hold
C3_Original ==
    [][/\ C3_OnlyIf
       /\ \A t \in TickIds, k \in Keys :
            /\ (AtSlot(t, k) /\ ThreeConditions(t, k) /\ ticks'[t] # ticks[t]
                => ticks'[t].pc = "await")
            /\ (ticks[t].pc = "await" /\ CurKey(ticks[t]) = k /\ ticks'[t] # ticks[t]
                => sent_today'[k] = ticks[t].sr_today)]_vars

\* C3 (amended): the transition occurs in a tick exactly when the three
\* conditions hold, the slot's word selection is not empty and the send
\* succeeds
C3_TransitionExactlyWhen ==
    [][/\ C3_OnlyIf
       /\ \A t \in TickIds : ticks[t].pc = "run" /\ ticks'[t].pc = "await" =>
            SelectionNonEmpty(CurKey(ticks[t])[1], CurKey(ticks[t])[2])
       /\ \A k \in Keys : Transition(k) =>
            lastOp'.op = "send_message" /\ lastOp'.ok /\ lastOp'.key = k
       /\ \A t \in TickIds, k \in Keys :
            /\ (AtSlot(t, k) /\ ThreeConditions(t, k)
                    /\ SelectionNonEmpty(k[1], k[2]) /\ ticks'[t] # ticks[t]
                => ticks'[t].pc = "await")
            /\ (ticks[t].pc = "await" /\ CurKey(ticks[t]) = k /\ ticks'[t] # ticks[t]
                    /\ lastOp'.op = "send_message" /\ lastOp'.ok
                => sent_today'[k] = ticks[t].sr_today)]_vars

\* C3 witness: a send has just succeeded and its entry holds the date the send
\* routine read
C3_Witness ==
    /\ lastOp.op = "send_message" /\ lastOp.ok
    /\ sent_today[lastOp.key] = lastOp.day

\* C4: an entry is written only by a send that returned success, with the
\* date that send routine read; a slot passed over without a send, a send in
\* flight and a send that failed leave the entry as it was
C4_RecordedOnlyAfterSuccess ==
    [][/\ \A k \in Keys : sent_today'[k] # sent_today[k] /\ sent_today'[k] # NoDate =>
            /\ lastOp'.op = "send_message" /\ lastOp'.ok
            /\ lastOp'.key = k /\ lastOp'.day = sent_today'[k]
       /\ (lastOp'.op = "send_message" /\ ~lastOp'.ok => sent_today' = sent_today)
       /\ \A t \in TickIds :
            /\ (AtSlot(t, CurKey(ticks[t])) /\ ticks'[t].pc # "idle"
                => sent_today' = sent_today)
            /\ (ticks[t].pc = "await" /\ ticks'[t] = ticks[t]
                => sent_today'[CurKey(ticks[t])] = sent_today[CurKey(ticks[t])])]_vars

\* C4 witness: a send has just failed and the entry still holds the date of an
\* earlier day
C4_Witness ==
    /\ lastOp.op = "send_message" /\ ~lastOp.ok
    /\ sent_today[lastOp.key] # NoDate
    /\ sent_today[lastOp.key] < lastOp.day

\* C6: at most one tick is in flight at any moment
C6_SingleTickInFlight == Cardinality({t \in TickIds : ticks[t].pc # "idle"}) <= 1

\* C6 witness: a tick is still in flight, waiting for a send, when the minute
\* in which it started is over
C6_Witness ==
    \E t \in TickIds :
        /\ ticks[t].pc = "await"
        /\ <<clock.day, TimeOfDay(clock)>> # <<ticks[t].today, ticks[t].now>>

----------------------------------------------------------------------------
(* Specification of the ticks over two users *)

\* The row get_user_settings creates for a user
TwoUserSettings ==
    [u \in Users |-> [morning_time |-> T0900, evening_time |-> T2000,
                      reminders_enabled |-> 1]]

\* The row of a word the user added when the clock started
WordOf(u) ==
    add_word({}, [day |-> 1, idx |-> 1], u, WordA, RussianX, None, None).db

InitTwo ==
    /\ InitClock
    /\ user_settings = TwoUserSettings
    /\ \E S \in SUBSET Users : words = UNION {WordOf(u) : u \in S}
    /\ sent_today = [k \in Keys |-> NoDate]
    /\ ticks = [t \in TickIds |-> IdleTick]
    /\ sentLog = {}
    /\ dupLog = {}
    /\ lastOp = NoOp
    /\ fired = {}
    /\ failLog = {}

NextTwo ==
    \/ \E t \in TickIds : TickStart(t)
    \/ \E t \in TickIds : CheckSlot(t)
    \/ \E t \in TickIds : TickEnd(t)
    \/ \E t \in TickIds, ok \in BOOLEAN : SendComplete(t, ok)
    \/ AdvanceClock

SpecTwo == InitTwo /\ [][NextTwo]_vars

\* The place of a tick in its loop, and the place that follows one
Pos(tk) == <<tk.i, tk.slot>>
Follows(p, q) ==
    \/ p[2] = "morning" /\ q = <<p[1], "evening">>
    \/ p[2] = "evening" /\ q = <<p[1] + 1, "morning">>

\* C5: a failure while one user is processed does not keep the tick from
\* processing the remaining users: the tick goes on at the next slot, it
\* examines every slot of every user it loaded in turn and still sends what
\* is due, and it ends only past the last user, with the purge applied
C5_FailureIsolated ==
    [][\A t \in TickIds :
        /\ (ticks[t].pc = "await" /\ ticks'[t] # ticks[t] /\ ~lastOp'.ok
            => /\ ticks'[t].pc = "run"
               /\ Follows(Pos(ticks[t]), Pos(ticks'[t])))
        /\ (ticks[t].pc # "idle" /\ ticks'[t].pc # "idle"
            => /\ ticks'[t].users = ticks[t].users
               /\ \/ Pos(ticks'[t]) = Pos(ticks[t])
                  \/ Follows(Pos(ticks[t]), Pos(ticks'[t])))
        /\ \A k \in Keys :
            AtSlot(t, k) /\ ticks[t].failed # {} /\ ThreeConditions(t, k)
                /\ SelectionNonEmpty(k[1], k[2]) /\ ticks'[t] # ticks[t]
            => ticks'[t].pc = "await"
        /\ (ticks[t].pc # "idle" /\ ticks'[t].pc = "idle"
            => /\ ticks[t].i > Len(ticks[t].users)
               /\ \A k \in Keys : sent_today'[k] = NoDate
                                    \/ sent_today'[k] >= ticks[t].today)]_vars

\* C5 witness: the reminder of the second user has just been delivered by a
\* tick in which the send to the first user failed
C5_Witness ==
    \E t \in TickIds :
        /\ ticks[t].pc = "run"
        /\ lastOp.op = "send_message" /\ lastOp.ok /\ lastOp.key[1] = 2
        /\ \E k \in ticks[t].failed : k[1] = 1

----------------------------------------------------------------------------
(* Specification of overlapping executions: the same loop and send routines
   when a second instance is started while one is in flight *)

\* One user, with the settings row get_user_settings creates and one word
InitOverlap ==
    /\ InitClock
    /\ user_settings = [u \in Users |-> IF u = 1 THEN TwoUserSettings[u] ELSE NoRow]
    /\ words = WordOf(1)
    /\ sent_today = [k \in Keys |-> NoDate]
    /\ ticks = [t \in TickIds |-> IdleTick]
    /\ sentLog = {}
    /\ dupLog = {}
    /\ lastOp = NoOp
    /\ fired = {}
    /\ failLog = {}

NextOverlap ==
    \/ \E t \in TickIds : Launch(t)
    \/ \E t \in TickIds : CheckSlot(t)
    \/ \E t \in TickIds : TickEnd(t)
    \/ \E t \in TickIds, ok \in BOOLEAN : SendComplete(t, ok)
    \/ AdvanceClock

SpecOverlap == InitOverlap /\ [][NextOverlap]_vars

----------------------------------------------------------------------------
(* Specifications of the word store *)

\* Inputs of the word handlers
EnglishInputs == {<<"a">>, <<"A">>, <<" ", "a">>}
Fields ==
    {[russian |-> <<"x">>, transcription |-> None, topic |-> None],
     [russian |-> <<"y", " ">>, transcription |-> <<"t">>, topic |-> <<" ", "g">>]}

\* The scheduler at rest and an empty store
InitWords ==
    /\ InitClock
    /\ user_settings = [u \in Users |-> NoRow]
    /\ words = {}
    /\ sent_today = [k \in Keys |-> NoDate]
    /\ ticks = [t \in TickIds |-> IdleTick]
    /\ sentLog = {}
    /\ dupLog = {}
    /\ lastOp = NoOp
    /\ fired = {}
    /\ failLog = {}

\* The user's row the review would hit has fewer than n reviews
ReviewsBelow(u, e, n) ==
    \A r \in words : r.user_id = u /\ r.english = StrLower(e) => r.review_count < n

\* Long review histories, at one instant
NextReview ==
    \/ \E u \in Users, e \in EnglishInputs :
            AddWord(FALSE, u, e, RussianX, None, None)
    \/ \E u \in Users, e \in EnglishInputs, c \in BOOLEAN :
            ReviewsBelow(u, e, MaxReviews) /\ MarkReviewed(TRUE, u, e, c)
    \/ \E u \in Users : DeleteWord(FALSE, u, WordA)

SpecReview == InitWords /\ [][NextReview]_vars

\* Short review histories of the first user's word, over the instants of the
\* first day, beside a word of the second user
NextWords ==
    \/ \E e \in EnglishInputs, f \in Fields :
            AddWord(TRUE, 1, e, f.russian, f.transcription, f.topic)
    \/ AddWord(FALSE, 2, WordA, RussianX, None, None)
    \/ \E e \in EnglishInputs, c \in BOOLEAN :
            ReviewsBelow(1, e, ShortReviews) /\ MarkReviewed(TRUE, 1, e, c)
    \/ \E u \in Users : DeleteWord(FALSE, u, WordA)
    \/ NextClock(clock).day = 1 /\ AdvanceClock

SpecWords == InitWords /\ [][NextWords]_vars

\* The row of ws a review of (u, e) hits, as a set
Reviewed(ws, u, e) == {r \in ws : r.user_id = u /\ r.english = StrLower(e)}

\* C8: after any sequence of AddWord, MarkReviewed and DeleteWord every word's
\* difficulty is an integer in [1,10]; a correct review of a word at 1 leaves
\* it at 1 and a wrong review of a word at 10 leaves it at 10
C8_DifficultyInRange ==
    /\ [](\A r \in words : r.difficulty \in 1..10)
    /\ [][lastOp'.op = "mark_word_reviewed" /\ lastOp'.ok =>
            \A r \in Reviewed(words, lastOp'.user_id, lastOp'.english) :
                /\ r.difficulty = 1 /\ lastOp'.correct =>
                     \A q \in Reviewed(words', lastOp'.user_id, lastOp'.english) :
                        q.difficulty = 1
                /\ r.difficulty = 10 /\ ~lastOp'.correct =>
                     \A q \in Reviewed(words', lastOp'.user_id, lastOp'.english) :
                        q.difficulty = 10]_vars

\* C8 witness: a wrong review has just been recorded for a word that was at
\* difficulty 10 before it, and the word is at 10
C8_Witness ==
    /\ lastOp.op = "mark_word_reviewed" /\ lastOp.ok /\ ~lastOp.correct
    /\ \E r \in Reviewed(words, lastOp.user_id, lastOp.english) :
            r.difficulty = 10 /\ r.review_count >= 10

\* C9: MarkReviewed on an existing row succeeds and changes exactly that row:
\* last_reviewed_at becomes now, review_count grows by one, difficulty becomes
\* max(1, old - 1) when correct and min(10, old + 1) when not; the other
\* fields of the row and every other row are unchanged
C9_MarkReviewedPostcondition ==
    [][lastOp'.op = "mark_word_reviewed"
         /\ Reviewed(words, lastOp'.user_id, lastOp'.english) # {} =>
            /\ lastOp'.ok
            /\ \E r \in Reviewed(words, lastOp'.user_id, lastOp'.english) :
                 words' = (words \ {r}) \cup
                    {[user_id |-> r.user_id, english |-> r.english,
                      russian |-> r.russian, transcription |-> r.transcription,
                      topic |-> r.topic, created_at |-> r.created_at,
                      last_reviewed_at |-> clock,
                      review_count |-> r.review_count + 1,
                      difficulty |->
                         IF lastOp'.correct
                         THEN (IF r.difficulty - 1 >= 1 THEN r.difficulty - 1 ELSE 1)
                         ELSE (IF r.difficulty + 1 <= 10 THEN r.difficulty + 1 ELSE 10)]}]_vars

\* C9 witness: a second review, given with the word in upper case, has just
\* been recorded at a later instant than the word was added, beside an
\* unreviewed word of the other user with the same english
C9_Witness ==
    /\ lastOp.op = "mark_word_reviewed" /\ lastOp.ok /\ lastOp.english = <<"A">>
    /\ \E r \in Reviewed(words, lastOp.user_id, lastOp.english) :
            /\ r.review_count = 2 /\ r.last_reviewed_at = clock
            /\ r.created_at # clock /\ r.transcription # None
    /\ \E q \in words : q.user_id # lastOp.user_id /\ q.review_count = 0

\* C10: a successful AddWord leaves exactly one row for the key (user_id,
\* lowercased-trimmed english): it holds the new russian, transcription and
\* topic, review_count 0, difficulty 1, no last_reviewed_at and the time of
\* this write as created_at, whatever the old row held; other rows are as
\* they were
C10_AddWordOverwrites ==
    [][lastOp'.op = "add_word" /\ lastOp'.ok =>
        LET u == lastOp'.user_id
            key == Strip(StrLower(lastOp'.english))
            SameKey(r) == r.user_id = u /\ r.english = key
            Trimmed(x) == IF x = None THEN None ELSE Strip(x)
        IN  /\ {r \in words' : SameKey(r)} =
                 {[user_id |-> u, english |-> key,
                   russian |-> Strip(lastOp'.russian),
                   transcription |-> Trimmed(lastOp'.transcription),
                   topic |-> Trimmed(lastOp'.topic),
                   created_at |-> clock, last_reviewed_at |-> NoTime,
                   review_count |-> 0, difficulty |-> 1]}
            /\ {r \in words' : ~SameKey(r)} = {r \in words : ~SameKey(r)}]_vars

\* C10 witness: a word has just been added, in upper case, over a row of the
\* same key that had been reviewed, held another translation and was created
\* at an earlier instant
C10_Witness ==
    /\ lastOp.op = "add_word" /\ lastOp.ok /\ lastOp.english = <<"A">>
    /\ \E r \in lastOp.before :
            /\ r.review_count > 0 /\ r.difficulty > 1
            /\ r.last_reviewed_at # NoTime /\ r.created_at # clock
            /\ r.russian # Strip(lastOp.russian)

----------------------------------------------------------------------------
(* Specification of the store's interface: any user_id, any text *)

\* Inputs: a user_id that is not positive beside a valid one; english and
\* russian in another case, with surrounding blanks, blank and empty
StoreUsers == {0, 1}
StoreEnglish == {<<"a">>, <<" ", "A", " ">>, <<" ">>, <<>>}
StoreRussian == {<<"x">>, <<" ", "x">>, <<" ">>, <<>>}
UtcOffsets == {0, 3, 10}

NextStore ==
    \/ \E u \in StoreUsers, e \in StoreEnglish, r \in StoreRussian :
            AddWord(TRUE, u, e, r, None, None)
    \/ \E u \in StoreUsers : GetUserWords(TRUE, u)
    \/ \E u \in StoreUsers :
            ReviewsBelow(u, WordA, 1) /\ MarkReviewed(TRUE, u, WordA, FALSE)
    \/ \E u \in StoreUsers, e \in StoreEnglish : DeleteWord(TRUE, u, e)
    \/ \E u \in StoreUsers, off \in UtcOffsets : GetReminderStats(TRUE, u, off)
    \/ \E u \in StoreUsers : GetUserSettings(TRUE, u)
    \/ \E u \in StoreUsers : UpdateUserSettings(TRUE, u, T2359, None, NoFlag)

SpecStore == InitWords /\ [][NextStore]_vars

\* C11: the key (user_id, lowercased english) is unique in the store, and
\* after a successful AddWord(u, e, r) GetUserWords(u) holds exactly one entry
\* whose english is e lowercased and trimmed, with r trimmed as its russian
C11_AddWordRoundTrip ==
    [][/\ \A r1, r2 \in words' :
            r1.user_id = r2.user_id /\ r1.english = r2.english => r1 = r2
       /\ lastOp'.op = "add_word" /\ lastOp'.ok =>
            LET got == get_user_words(words', lastOp'.user_id)
                at == {i \in DOMAIN got : got[i][1] = Strip(StrLower(lastOp'.english))}
            IN  /\ Cardinality(at) = 1
                /\ \A i \in at : got[i][2] = Strip(lastOp'.russian)]_vars

----------------------------------------------------------------------------
(* ReminderSystem.get_reminder_mode_recommendation *)

\* The cascade with the difficulty test ahead of the old-words test
recommend_difficult_first(stats) ==
    IF stats.total_words = 0 THEN "no_words"
    ELSE IF stats.never_reviewed >= 10 THEN "mode_1_recent"
    ELSE IF stats.avg_difficulty > 30 THEN "mode_2_difficult"
    ELSE IF stats.never_reviewed < 5 /\ stats.total_words > 15 THEN "mode_2_old"
    ELSE "mode_1_recent"

\* avg_difficulty is carried in tenths, so "> 3" reads "> 30"
get_reminder_mode_recommendation(stats) ==
    IF stats.total_words = 0 THEN "no_words"
    ELSE IF stats.never_reviewed >= 10 THEN "mode_1_recent"
    ELSE IF stats.never_reviewed < 5 /\ stats.total_words > 15 THEN "mode_2_old"
    ELSE IF stats.avg_difficulty > 30 THEN "mode_2_difficult"
    ELSE "mode_1_recent"

\* Statistics get_reminder_stats can return: a word never reviewed has
\* difficulty 1, a reviewed one 1..10, and no word gives the average 1.0
TotalWords == {0, 1, 4, 6, 15, 16, 20}
NeverReviewed == {0, 1, 4, 5, 9, 10, 12}
ReviewedToday == {0, 1, 5}
AvgTenths == {10, 29, 30, 31, 55, 100}
StatsInputs ==
    {st \in [total_words : TotalWords, never_reviewed : NeverReviewed,
             reviewed_today : ReviewedToday, avg_difficulty : AvgTenths,
             ready_for_reminder : BOOLEAN] :
        /\ st.never_reviewed + st.reviewed_today <= st.total_words
        /\ st.total_words = 0 => st.avg_difficulty = 10
        /\ st.avg_difficulty * st.total_words
                <= 10 * (st.never_reviewed + 10 * (st.total_words - st.never_reviewed))
        /\ st.ready_for_reminder
                = (\/ st.never_reviewed > 0
                   \/ st.total_words > 0 /\ st.reviewed_today < st.total_words \div 3)}

RecommendMode(stats) ==
    /\ lastOp' = [op |-> "get_reminder_mode_recommendation", stats |-> stats,
                  res |-> get_reminder_mode_recommendation(stats)]
    /\ UNCHANGED <<clock, user_settings, words, sent_today, ticks, sentLog, dupLog, fired, failLog>>

NextMode == \E stats \in StatsInputs : RecommendMode(stats)

SpecMode == InitWords /\ [][NextMode]_vars

\* C12: RecommendMode is a priority cascade: no words give NoWords; else ten
\* or more never-reviewed words give RecentWords; else fewer than five
\* never-reviewed with more than fifteen words give OldWords; else an average
\* difficulty above 3 gives DifficultWords; else RecentWords. NoWords is
\* returned only when there are no words, and Mixed is never returned
C12_ModeCascade ==
    lastOp.op = "get_reminder_mode_recommendation" =>
        LET st == lastOp.stats
            res == lastOp.res
        IN  /\ (res = "no_words") = (st.total_words = 0)
            /\ st.total_words # 0 /\ st.never_reviewed >= 10 => res = "mode_1_recent"
            /\ (res = "mode_2_old")
                    = (st.total_words > 15 /\ st.never_reviewed < 5)
            /\ (res = "mode_2_difficult")
                    = (/\ st.total_words # 0 /\ st.never_reviewed < 10
                       /\ ~(st.never_reviewed < 5 /\ st.total_words > 15)
                       /\ st.avg_difficulty > 30)
            /\ res \in {"no_words", "mode_1_recent", "mode_2_old", "mode_2_difficult"}
            /\ res # "mode_mixed"

\* the old-words rule wins over a high average difficulty
C12_Witness ==
    /\ lastOp.op = "get_reminder_mode_recommendation"
    /\ lastOp.stats.total_words > 15 /\ lastOp.stats.never_reviewed < 5
    /\ lastOp.stats.avg_difficulty > 30
    /\ lastOp.res = "mode_2_old"

----------------------------------------------------------------------------
(* Specification of the reminder statistics *)

StatsWords == {<<"a">>, <<"b">>, <<"c">>}

NewRow(u, e) ==
    [user_id |-> u, english |-> e, russian |-> RussianX,
     transcription |-> None, topic |-> None,
     created_at |-> [day |-> 1, idx |-> 1], last_reviewed_at |-> NoTime,
     review_count |-> 0, difficulty |-> 1]

\* Three words of the first user and one of the second, added at the first
\* instant and not yet reviewed
InitStats ==
    /\ InitClock
    /\ user_settings = [u \in Users |-> NoRow]
    /\ words = {NewRow(1, e) : e \in StatsWords} \cup {NewRow(2, WordA)}
    /\ sent_today = [k \in Keys |-> NoDate]
    /\ ticks = [t \in TickIds |-> IdleTick]
    /\ sentLog = {}
    /\ dupLog = {}
    /\ lastOp = NoOp
    /\ fired = {}
    /\ failLog = {}

NextStats ==
    \/ \E e \in StatsWords :
            ReviewsBelow(1, e, 1) /\ MarkReviewed(FALSE, 1, e, FALSE)
    \/ ReviewsBelow(2, WordA, 1) /\ clock.idx = 1 /\ MarkReviewed(FALSE, 2, WordA, FALSE)
    \/ \E e \in StatsWords : DeleteWord(FALSE, 1, e)
    \/ \E u \in Users, off \in UtcOffsets : GetReminderStats(TRUE, u, off)
    \/ AdvanceClock

SpecStats == InitStats /\ [][NextStats]_vars

\* C13: GetReminderStats returns ready_for_reminder = true exactly when
\* never_reviewed > 0 or (total_words > 0 and reviewed_today < total_words
\* div 3), the counts being those of the user's current rows (on a host at
\* UTC reviewed_today is the number of rows last reviewed on the clock's
\* date); with no word it returns 0, 0, 0, 1.0 and false
C13_ReadyForReminder ==
    lastOp.op = "get_reminder_stats" =>
        LET st == lastOp.res
            rows == {r \in words : r.user_id = lastOp.user_id}
            reviewed == {r \in rows : r.last_reviewed_at # NoTime}
        IN  /\ st.ready_for_reminder
                = (\/ st.never_reviewed > 0
                   \/ st.total_words > 0
                        /\ st.reviewed_today < st.total_words \div 3)
            /\ st.total_words = Cardinality(rows)
            /\ st.never_reviewed = Cardinality(rows \ reviewed)
            /\ st.reviewed_today <= Cardinality(reviewed)
            /\ lastOp.utc_offset = 0 =>
                    st.reviewed_today
                        = Cardinality({r \in reviewed : r.last_reviewed_at.day = clock.day})
            /\ rows = {} =>
                    st = [total_words |-> 0, never_reviewed |-> 0,
                          reviewed_today |-> 0, avg_difficulty |-> 10,
                          ready_for_reminder |-> FALSE]

\* statistics of three words, all reviewed, one of them today: not ready
C13_Witness ==
    /\ lastOp.op = "get_reminder_stats" /\ lastOp.user_id = 1
    /\ lastOp.res.total_words = 3 /\ lastOp.res.never_reviewed = 0
    /\ lastOp.res.reviewed_today = 1
    /\ ~lastOp.res.ready_for_reminder
    /\ clock.day = 2

----------------------------------------------------------------------------
(* Specification of the two time validators *)

\* Texts of an hour or minute part with the integer each denotes, NoInt for
\* a text that is no integer
NoInt == 0 - 1000
TimeParts ==
    {[text |-> <<>>, val |-> NoInt],
     [text |-> <<"0">>, val |-> 0],
     [text |-> <<"0", "0">>, val |-> 0],
     [text |-> <<"5">>, val |-> 5],
     [text |-> <<"9">>, val |-> 9],
     [text |-> <<"0", "9">>, val |-> 9],
     [text |-> <<"2", "3">>, val |-> 23],
     [text |-> <<"2", "4">>, val |-> 24],
     [text |-> <<"5", "9">>, val |-> 59],
     [text |-> <<"6", "0">>, val |-> 60],
     [text |-> <<" ", "9">>, val |-> 9],
     [text |-> <<"+", "5">>, val |-> 5],
     [text |-> <<"-", "1">>, val |-> 0 - 1],
     [text |-> <<"x">>, val |-> NoInt],
     [text |-> <<"9", "x">>, val |-> NoInt]}

\* Texts between the two parts with the number of colons in each
TimeSeps ==
    {[text |-> <<":">>, colons |-> 1],
     [text |-> <<>>, colons |-> 0],
     [text |-> <<":", ":">>, colons |-> 2],
     [text |-> <<" ", ":", " ">>, colons |-> 1]}

ValidateTime(h, sep, m) ==
    LET time_str == h.text \o sep.text \o m.text
    IN  /\ lastOp' = [op |-> "validate_time", h |-> h, sep |-> sep, m |-> m,
                      time_str |-> time_str,
                      settings |-> validate_time(time_str),
                      database |-> validate_time_format(time_str)]
        /\ UNCHANGED <<clock, user_settings, words, sent_today, ticks, sentLog, dupLog,
                       fired, failLog>>

NextTime == \E h \in TimeParts, sep \in TimeSeps, m \in TimeParts : ValidateTime(h, sep, m)

SpecTime == InitWords /\ [][NextTime]_vars

\* C14: ValidateTime(s) is true exactly when s splits on ':' into exactly two
\* parts that both parse as integers H and M with 0 <= H <= 23 and
\* 0 <= M <= 59; "23:59" and "9:5" are accepted, "24:00", "9:60" and "" are
\* rejected; a parse failure gives false. Both validators agree with this
C14_ValidateTime ==
    lastOp.op = "validate_time" =>
        LET expected ==
                /\ lastOp.sep.colons = 1
                /\ lastOp.h.val # NoInt /\ lastOp.m.val # NoInt
                /\ 0 <= lastOp.h.val /\ lastOp.h.val <= 23
                /\ 0 <= lastOp.m.val /\ lastOp.m.val <= 59
        IN  /\ lastOp.settings = expected
            /\ lastOp.database = expected
            /\ lastOp.time_str = T2359 => lastOp.settings /\ lastOp.database
            /\ lastOp.time_str \in {T2400, <<"9", ":", "6", "0">>, <<>>} =>
                    ~lastOp.settings /\ ~lastOp.database

\* "9:5" has been accepted by both validators
C14_Witness ==
    /\ lastOp.op = "validate_time"
    /\ lastOp.time_str = <<"9", ":", "5">>
    /\ lastOp.settings /\ lastOp.database

\* "24:00" has been rejected by both validators
C14_WitnessRejected ==
    /\ lastOp.op = "validate_time"
    /\ lastOp.time_str = T2400
    /\ ~lastOp.settings /\ ~lastOp.database

----------------------------------------------------------------------------
(* Specification of the settings store *)

\* Inputs: a time left out, the empty string, valid and invalid times
T0905 == <<"9", ":", "5">>
SettingsTimes == {None, <<>>, T2359, T0905, T2400}
SettingsFlags == {NoFlag, Flag(TRUE), Flag(FALSE)}
SettingsUsers == {0, 1}

NextSettings ==
    \/ \E u \in SettingsUsers, m \in SettingsTimes, ev \in SettingsTimes,
          f \in SettingsFlags : UpdateUserSettings(TRUE, u, m, ev, f)
    \/ \E u \in SettingsUsers : GetUserSettings(TRUE, u)
    \/ \E m \in {T2359, T2400} : UpdateUserSettings(FALSE, 2, m, None, NoFlag)
    \/ GetUserSettings(FALSE, 2)

SpecSettings == InitWords /\ [][NextSettings]_vars

\* A time was passed (not left out) and is no valid HH:MM time
InvalidSupplied(t) == t # None /\ ~validate_time_format(t)

\* C15: UpdateUserSettings validates every supplied time before any write: if
\* a supplied morning_time or evening_time is not a valid HH:MM time the call
\* returns failure and the settings are exactly as before the call, no field
\* changed and no row created, whatever the other supplied fields
C15_InvalidTimeRejected ==
    [][/\ lastOp'.op = "update_user_settings"
       /\ \/ InvalidSupplied(lastOp'.morning_time)
          \/ InvalidSupplied(lastOp'.evening_time)
       => ~lastOp'.ok /\ user_settings' = user_settings]_vars

\* C16: a successful UpdateUserSettings changes only the supplied fields: an
\* omitted morning_time, evening_time or reminders_enabled keeps its value,
\* and for a user without a row the inserted row holds the supplied values
\* and "09:00", "20:00", enabled for the omitted ones
C16_OnlySuppliedFieldsChange ==
    [][lastOp'.op = "update_user_settings" /\ lastOp'.ok =>
        LET u == lastOp'.user_id
            old == user_settings[u]
            new == user_settings'[u]
        IN  /\ \A v \in Users \ {u} : user_settings'[v] = user_settings[v]
            /\ new # NoRow
            /\ old # NoRow =>
                /\ lastOp'.morning_time = None => new.morning_time = old.morning_time
                /\ lastOp'.evening_time = None => new.evening_time = old.evening_time
                /\ lastOp'.reminders_enabled = NoFlag =>
                        new.reminders_enabled = old.reminders_enabled
            /\ old = NoRow =>
                /\ new.morning_time = IF lastOp'.morning_time = None THEN T0900
                                      ELSE lastOp'.morning_time
                /\ new.evening_time = IF lastOp'.evening_time = None THEN T2000
                                      ELSE lastOp'.evening_time
                /\ new.reminders_enabled
                        = IF lastOp'.reminders_enabled = NoFlag THEN 1
                          ELSE BoolToInt(FlagVal(lastOp'.reminders_enabled))]_vars

\* C17: GetUserSettings for a user without a row returns the defaults "09:00",
\* "20:00", enabled and persists a row holding them; for a user with a row it
\* returns the stored values and leaves the row as it is, so a read never
\* overwrites what an earlier UpdateUserSettings set
C17_ReadKeepsStoredValues ==
    [][lastOp'.op = "get_user_settings" /\ ValidUserId(lastOp'.user_id) =>
        LET u == lastOp'.user_id
            old == user_settings[u]
        IN  /\ old = NoRow =>
                /\ lastOp'.res = DefaultSettings
                /\ user_settings' = [user_settings EXCEPT ![u] =
                        [morning_time |-> T0900, evening_time |-> T2000,
                         reminders_enabled |-> 1]]
            /\ old # NoRow =>
                /\ lastOp'.res = [morning_time |-> old.morning_time,
                                  evening_time |-> old.evening_time,
                                  reminders_enabled |-> old.reminders_enabled = 1]
                /\ user_settings' = user_settings]_vars

\* a read has returned values an update stored, none of them a default, and
\* the row still holds them
C17_Witness ==
    /\ lastOp.op = "get_user_settings" /\ lastOp.user_id = 1
    /\ lastOp.res = [morning_time |-> T2359, evening_time |-> T0905,
                     reminders_enabled |-> FALSE]
    /\ user_settings[1] = [morning_time |-> T2359, evening_time |-> T0905,
                           reminders_enabled |-> 0]

----------------------------------------------------------------------------
(* Argument checks of the store's interface *)

ZeroStats ==
    [total_words |-> 0, never_reviewed |-> 0, reviewed_today |-> 0,
     avg_difficulty |-> 10, ready_for_reminder |-> FALSE]

\* The result is the operation's zero value
ZeroResult(call) ==
    CASE call.op = "get_user_words" -> call.res = <<>>
      [] call.op = "get_reminder_stats" -> call.res = ZeroStats
      [] call.op = "get_user_settings" -> call.res = DefaultSettings
      [] OTHER -> ~call.ok

\* C18: every operation of the store called with a user_id that is not a
\* positive integer fails: it returns its zero value (false, the empty list,
\* zero statistics, the default settings) and leaves the words and
\* user_settings tables as they were
C18_InvalidUserIdFails ==
    [][lastOp'.op # "none" /\ ~ValidUserId(lastOp'.user_id) =>
            /\ ZeroResult(lastOp')
            /\ words' = words
            /\ user_settings' = user_settings]_vars

\* C19: no row of the word store has an empty english or an empty russian:
\* AddWord whose english or russian is empty after trimming, blank input
\* included, is rejected with a failure result and writes nothing
C19_NoEmptyWord ==
    [][/\ \A r \in words' : r.english # <<>> /\ r.russian # <<>>
       /\ /\ lastOp'.op = "add_word"
          /\ Strip(lastOp'.english) = <<>> \/ Strip(lastOp'.russian) = <<>>
          => ~lastOp'.ok /\ words' = words]_vars

----------------------------------------------------------------------------
(* The review counter *)

SameKey(r, q) == r.user_id = q.user_id /\ r.english = q.english

\* C20 as stated: for every key review_count is a non-negative integer that
\* never decreases over any sequence of operations while the key is present,
\* and only MarkReviewed increases it
C20_Original ==
    [][\A r \in words, q \in words' : SameKey(r, q) =>
            /\ q.review_count \in Nat
            /\ q.review_count >= r.review_count
            /\ q.review_count > r.review_count =>
                    lastOp'.op = "mark_word_reviewed"]_vars

\* C20, amended: review_count is a non-negative integer; while the key is
\* present it decreases only when AddWord writes the key again, which starts
\* it at 0, and only MarkReviewed increases it, by one for the reviewed key
C20_ReviewCountMonotone ==
    [][/\ \A q \in words' : q.review_count \in Nat
       /\ \A r \in words, q \in words' : SameKey(r, q) =>
            /\ q.review_count < r.review_count =>
                    /\ lastOp'.op = "add_word" /\ lastOp'.ok
                    /\ r \in lastOp'.before
                    /\ q.review_count = 0
            /\ q.review_count > r.review_count =>
                    /\ lastOp'.op = "mark_word_reviewed" /\ lastOp'.ok
                    /\ r \in Reviewed(words, lastOp'.user_id, lastOp'.english)
                    /\ q.review_count = r.review_count + 1]_vars

\* a word reviewed twice has just been written again by AddWord, given with a
\* leading blank, and its count is 0
C20_Witness ==
    /\ lastOp.op = "add_word" /\ lastOp.ok /\ lastOp.english = <<" ", "a">>
    /\ \E r \in lastOp.before : r.review_count = 2
    /\ \A q \in words : q.user_id = lastOp.user_id => q.review_count = 0

\* a second review has just raised a count from 1 to 2
C20_WitnessIncrease ==
    /\ lastOp.op = "mark_word_reviewed" /\ lastOp.ok
    /\ \E r \in Reviewed(words, lastOp.user_id, lastOp.english) : r.review_count = 2

----------------------------------------------------------------------------
(* Specification of the stored times *)

\* Arguments of any shape: left out, empty, blank, valid with and without
\* padding, out of range, not numeric, with too many or too few parts
TPadded == <<" ", "9", ":", "5", " ">>
AnyTimes ==
    {None, <<>>, <<" ">>, T2359, T0905, TPadded, T2400,
     <<"9", ":", "6", "0">>, <<"x", ":", "0">>, <<"9">>, <<"9", ":", "0", ":", "0">>,
     <<"-", "1", ":", "0">>}

NextStoredTimes ==
    \/ \E u \in SettingsUsers, m \in AnyTimes, ev \in AnyTimes :
            UpdateUserSettings(TRUE, u, m, ev, NoFlag)
    \/ \E u \in SettingsUsers : GetUserSettings(TRUE, u)

SpecStoredTimes == InitWords /\ [][NextStoredTimes]_vars

\* C21: after any sequence of GetUserSettings and UpdateUserSettings with
\* arbitrary arguments every stored morning_time and evening_time is a valid
\* HH:MM time with 0 <= H <= 23 and 0 <= M <= 59, and the scheduler's
\* _parse_time does not fall back to its default for a stored value
C21_StoredTimesValid ==
    \A u \in Users : user_settings[u] # NoRow =>
        \A t \in {user_settings[u].morning_time, user_settings[u].evening_time} :
            /\ t # None
            /\ validate_time_format(t)
            /\ ~parse_time_falls_back(t)
            /\ LET hm == parse_time(t)
               IN  0 <= hm[1] /\ hm[1] <= 23 /\ 0 <= hm[2] /\ hm[2] <= 59

\* a time given with surrounding blanks is stored beside one stored by an
\* earlier call, after a call with an invalid time was refused
C21_Witness ==
    /\ user_settings[1] # NoRow
    /\ user_settings[1].morning_time = TPadded
    /\ user_settings[1].evening_time = T2359
    /\ lastOp.op = "update_user_settings" /\ ~lastOp.ok
    /\ lastOp.morning_time = T2400

----------------------------------------------------------------------------
(* ReminderSystem.get_reminder_words *)

\* The mode argument, an Optional[str], is a set of at most one string
NoMode == {}
Mode(m) == {m}

\* The set of (label, words) the call can return; the label stands for the
\* description text of the branch taken
get_reminder_words(ws, now, utc_offset, user_id, mode, limit) ==
    LET stats == get_reminder_stats(ws, now, utc_offset, user_id)
        m == IF mode = NoMode THEN get_reminder_mode_recommendation(stats)
             ELSE CHOOSE x \in mode : TRUE
    IN  IF stats.total_words = 0 THEN {[description |-> "no_words", words |-> <<>>]}
        ELSE IF m = "mode_1_recent"
        THEN {[description |-> "recent", words |-> w] :
                    w \in get_recent_words(ws, user_id, limit)}
        ELSE IF m = "mode_2_old"
        THEN {[description |-> "old", words |-> w] :
                    w \in get_old_words(ws, user_id, limit)}
        ELSE IF m = "mode_2_difficult"
        THEN {[description |-> "difficult", words |-> w] :
                    w \in get_difficult_words(ws, user_id, limit)}
        ELSE IF m = "mode_mixed"
        THEN {[description |-> "mixed", words |-> recent \o old] :
                    recent \in get_recent_words(ws, user_id, limit \div 2),
                    old \in get_old_words(ws, user_id, limit \div 2)}
        ELSE {[description |-> "unknown", words |-> <<>>]}

SelectWords(user_id, mode, limit) ==
    /\ Quiescent
    /\ \E res \in get_reminder_words(words, clock, 0, user_id, mode, limit) :
            lastOp' = [op |-> "get_reminder_words", user_id |-> user_id,
                       mode |-> mode, limit |-> limit, res |-> res]
    /\ UNCHANGED <<clock, user_settings, words, sent_today, ticks, sentLog, dupLog, fired, failLog>>

\* Inputs: the modes, none and an unknown one; limits from none to more than
\* the words there are
SelectModes ==
    {NoMode, Mode("mode_1_recent"), Mode("mode_2_old"), Mode("mode_2_difficult"),
     Mode("mode_mixed"), Mode("mode_9")}
SelectLimits == 0..4
SelectEnglish == {<<"a">>, <<"b">>}

\* Two words of the first user added and reviewed at the instants of the
\* first day, beside a word of the second user
NextSelect ==
    \/ \E e \in SelectEnglish : AddWord(FALSE, 1, e, RussianX, None, None)
    \/ AddWord(FALSE, 2, WordA, RussianX, None, None)
    \/ \E e \in SelectEnglish :
            ReviewsBelow(1, e, 1) /\ MarkReviewed(FALSE, 1, e, FALSE)
    \/ NextClock(clock).day = 1 /\ AdvanceClock
    \/ \E m \in SelectModes, n \in SelectLimits : SelectWords(1, m, n)

SpecSelect == InitWords /\ [][NextSelect]_vars

\* A list of pairs holds no word twice
NoWordTwice(ws) == \A i, j \in DOMAIN ws : ws[i][1] = ws[j][1] => i = j

\* C22: SelectWords returns the result of exactly one query per mode
\* (GetRecentWords(limit), GetOldWords(limit), GetDifficultWords(limit)),
\* takes the mode from RecommendMode when none is given, and in Mixed mode
\* returns GetRecentWords(limit div 2) followed by GetOldWords(limit div 2);
\* for every mode the list has at most limit entries and no word twice
C22_SelectWords ==
    lastOp.op = "get_reminder_words" =>
        LET u == lastOp.user_id
            n == lastOp.limit
            got == lastOp.res.words
            m == IF lastOp.mode = NoMode
                 THEN get_reminder_mode_recommendation(
                            get_reminder_stats(words, clock, 0, u))
                 ELSE CHOOSE x \in lastOp.mode : TRUE
        IN  /\ m = "mode_1_recent" => got \in get_recent_words(words, u, n)
            /\ m = "mode_2_old" => got \in get_old_words(words, u, n)
            /\ m = "mode_2_difficult" => got \in get_difficult_words(words, u, n)
            /\ m = "mode_mixed" =>
                    \E recent \in get_recent_words(words, u, n \div 2),
                       old \in get_old_words(words, u, n \div 2) :
                            got = recent \o old
            /\ Len(got) <= n
            /\ NoWordTwice(got)

----------------------------------------------------------------------------
(* The end of a tick *)

\* Tick t completes in this step
Completes(t) == ticks[t].pc = "run" /\ ticks'[t].pc = "idle"

\* C23: when a tick completes the dedup table holds no entry whose date is
\* before that tick's today: every such entry is purged at the end of the
\* tick, and no entry whose date is today is removed
C23_PurgeAtTickEnd ==
    [][\A t \in TickIds : Completes(t) =>
            \A k \in Keys :
                /\ sent_today'[k] # NoDate => sent_today'[k] >= ticks[t].today
                /\ sent_today[k] # NoDate /\ sent_today[k] < ticks[t].today =>
                        sent_today'[k] = NoDate
                /\ sent_today[k] = ticks[t].today => sent_today'[k] = sent_today[k]]_vars

\* a tick of the second day has completed: the evening entry of the day
\* before is gone and the morning entry the tick wrote is kept
C23_Witness ==
    /\ \A t \in TickIds : ticks[t].pc = "idle"
    /\ clock.day = 2
    /\ <<<<1, "evening">>, 1>> \in sentLog
    /\ sent_today[<<1, "evening">>] = NoDate
    /\ sent_today[<<1, "morning">>] = 2

----------------------------------------------------------------------------
(* Specification of the ticks over stored times of any content: the job reads
   the table with its own SELECT and parses whatever string a row holds *)

\* Strings _parse_time cannot parse: a part too many, a part too few, a part
\* that is no integer, an hour and a minute out of range
BadTimes ==
    {<<"9", ":", "0", ":", "0">>, <<"9">>, <<"x", ":", "0">>, T2400,
     <<"9", ":", "6", "0">>}

\* The first user's row holds one of them in one column or in both, beside
\* the second user's default row; both users have a word
InitParse ==
    /\ InitClock
    /\ \E b \in BadTimes : \E m \in {b, T0900}, ev \in {b, T2000} :
            /\ b \in {m, ev}
            /\ user_settings = [TwoUserSettings EXCEPT
                                ![1] = [morning_time |-> m, evening_time |-> ev,
                                        reminders_enabled |-> 1]]
    /\ words = WordOf(1) \cup WordOf(2)
    /\ sent_today = [k \in Keys |-> NoDate]
    /\ ticks = [t \in TickIds |-> IdleTick]
    /\ sentLog = {}
    /\ dupLog = {}
    /\ lastOp = NoOp
    /\ fired = {}
    /\ failLog = {}

NextParse ==
    \/ \E t \in TickIds : TickStart(t)
    \/ \E t \in TickIds : CheckSlot(t)
    \/ \E t \in TickIds : TickEnd(t)
    \/ \E t \in TickIds, ok \in BOOLEAN : SendComplete(t, ok)
    \/ AdvanceClock

SpecParse == InitParse /\ [][NextParse]_vars

\* The string the tick loaded for the slot it is at
StoredTime(tk) ==
    IF tk.slot = "morning" THEN tk.users[tk.i].morning_time
    ELSE tk.users[tk.i].evening_time

\* C24: when the stored time string of a slot cannot be parsed the tick takes
\* 09:00 for that slot and goes on with that user and the remaining users;
\* this holds for the evening slot as for the morning slot, so the slot fires
\* at 09:00 and at no other time
C24_ParseFallbackIs0900 ==
    [][\A t \in TickIds :
        /\ ticks[t].pc = "run" /\ ticks[t].i <= Len(ticks[t].users)
        /\ StoredTime(ticks[t]) \in BadTimes
        /\ ticks'[t] # ticks[t]
        => LET tk == ticks[t]
               k == CurKey(tk)
           IN  /\ (ticks'[t].pc = "await")
                    = (/\ tk.now = <<9, 0>>
                       /\ sent_today[k] # tk.today /\ sent_today[k] # clock.day
                       /\ Enabled(k[1]) /\ SelectionNonEmpty(k[1], k[2]))
               /\ ticks'[t].pc \in {"run", "await"}
               /\ ticks'[t].users = tk.users
               /\ ticks'[t].pc = "run" => Follows(Pos(tk), Pos(ticks'[t]))
               /\ ticks'[t].pc = "await" => Pos(ticks'[t]) = Pos(tk)]_vars

\* the evening reminder of the first user, whose evening_time cannot be
\* parsed, was delivered by the 09:00 tick, which now sends to the second user
C24_Witness ==
    \E t \in TickIds :
        /\ ticks[t].pc = "await" /\ ticks[t].now = <<9, 0>>
        /\ CurKey(ticks[t]) = <<2, "morning">>
        /\ ticks[t].users[1].evening_time \in BadTimes
        /\ <<<<1, "evening">>, ticks[t].today>> \in sentLog

----------------------------------------------------------------------------
(* Specification of the ticks under the cron trigger: CronTrigger(minute="*")
   fires once in a minute, so no two instances start in the same minute *)

\* The trigger fires in a minute in which it has not fired yet
CronStart(t) ==
    /\ CanStart
    /\ Instant(clock) \notin fired
    /\ LaunchJob(t)
    /\ fired' = fired \cup {Instant(clock)}
    /\ UNCHANGED failLog

\* bot.send_message returns or raises; a raise is noted with the date of the
\* tick and the row the tick had loaded for the user
SendCompleteLogged(t, ok) ==
    /\ SendReturns(t, ok)
    /\ failLog' = IF ok THEN failLog
                  ELSE failLog \cup {[key |-> CurKey(ticks[t]), day |-> ticks[t].today,
                                      row |-> ticks[t].users[ticks[t].i]]}
    /\ UNCHANGED fired

CronTimes == {T0900, T2359}

NextCron ==
    \/ \E t \in TickIds : CronStart(t)
    \/ \E t \in TickIds : CheckSlot(t)
    \/ \E t \in TickIds : TickEnd(t)
    \/ \E t \in TickIds, ok \in BOOLEAN : SendCompleteLogged(t, ok)
    \/ AdvanceClock
    \/ \E m \in CronTimes : UpdateUserSettings(FALSE, 1, m, None, NoFlag)

SpecCron == InitOverlap /\ [][NextCron]_vars

\* Tick t calls bot.send_message in this step
Attempts(t) == ticks[t].pc = "run" /\ ticks'[t].pc = "await"

\* C25: a failed send is not retried: after a send for (user, slot) failed in
\* the tick at the slot's minute no further send for that key is attempted in
\* the same tick, and with the user's settings as that tick loaded them none
\* is attempted in a later tick of the same day; the next attempt is made by
\* a tick at the slot's minute on a following day
C25_NoRetry ==
    [][\A t \in TickIds : Attempts(t) =>
            LET tk == ticks[t]
                k == CurKey(tk)
            IN  /\ k \notin tk.failed
                /\ tk.now = SlotTime(tk)
                /\ \A f \in failLog :
                        f.key = k /\ f.row = tk.users[tk.i] => tk.today > f.day]_vars

\* the send that failed on the first day is attempted again by the tick at
\* the slot's minute of the second day, the settings being the same
C25_Witness ==
    \E t \in TickIds :
        /\ ticks[t].pc = "await" /\ ticks[t].today = 2
        /\ \E f \in failLog :
                /\ f.key = CurKey(ticks[t]) /\ f.day = 1
                /\ f.row = ticks[t].users[ticks[t].i]
                /\ ticks[t].now = SlotTime(ticks[t])

----------------------------------------------------------------------------
(* A review of a word that is not there *)

\* C26: MarkReviewed(user_id, english, correct) with no row matching
\* (user_id, lowercased english) returns the failure result and leaves every
\* row of the word store as it was: no row is created and no review_count,
\* difficulty or last_reviewed_at is altered
C26_MarkReviewedNotFound ==
    [][/\ lastOp'.op = "mark_word_reviewed"
       /\ ~\E r \in words : r.user_id = lastOp'.user_id
                            /\ r.english = StrLower(lastOp'.english)
       => ~lastOp'.ok /\ words' = words]_vars

\* a review given with a leading blank has just failed beside the user's
\* reviewed row of that word and the other user's row
C26_Witness ==
    /\ lastOp.op = "mark_word_reviewed" /\ ~lastOp.ok
    /\ lastOp.english = <<" ", "a">>
    /\ \E r \in words : r.user_id = lastOp.user_id /\ r.english = <<"a">>
                        /\ r.review_count = 1
    /\ \E q \in words : q.user_id # lastOp.user_id

----------------------------------------------------------------------------
(* Specification of the old-words query *)

GetOldWords(user_id, limit) ==
    /\ Quiescent
    /\ \E res \in get_old_words(words, user_id, limit) :
            lastOp' = [op |-> "get_old_words", user_id |-> user_id,
                       limit |-> limit, res |-> res]
    /\ UNCHANGED <<clock, user_settings, words, sent_today, ticks, sentLog, dupLog,
                   fired, failLog>>

OldLimits == {0, 1, 2, 3, 5}

\* Three words of the first user, added again and reviewed at the instants of
\* the first day, beside the word of the second user
NextOld ==
    \/ \E e \in StatsWords : AddWord(FALSE, 1, e, RussianX, None, None)
    \/ \E e \in StatsWords :
            ReviewsBelow(1, e, 1) /\ MarkReviewed(TRUE, 1, e, TRUE)
    \/ NextClock(clock).day = 1 /\ AdvanceClock
    \/ \E n \in OldLimits : GetOldWords(1, n)

SpecOld == InitStats /\ [][NextOld]_vars

\* Row x may not come after row y in the old-words order
OldBefore(x, y) ==
    \/ x.last_reviewed_at = NoTime /\ y.last_reviewed_at # NoTime
    \/ /\ x.last_reviewed_at # NoTime /\ y.last_reviewed_at # NoTime
       /\ \/ Instant(x.last_reviewed_at) < Instant(y.last_reviewed_at)
          \/ /\ x.last_reviewed_at = y.last_reviewed_at
             /\ Instant(x.created_at) < Instant(y.created_at)

\* The user's row a returned pair stands for
RowOf(ws, u, pair) == CHOOSE r \in ws : r.user_id = u /\ r.english = pair[1]

\* A list is the first n of the user's words in the old-words order
OldOrdered(ws, u, n, got) ==
    /\ Len(got) = Min(n, Cardinality(UserRows(ws, u)))
    /\ \A i \in DOMAIN got :
            \E r \in UserRows(ws, u) : got[i] = <<r.english, r.russian>>
    /\ \A i, j \in DOMAIN got :
            i < j => /\ got[i] # got[j]
                     /\ ~OldBefore(RowOf(ws, u, got[j]), RowOf(ws, u, got[i]))
    /\ \A r \in UserRows(ws, u) :
            (\A i \in DOMAIN got : got[i][1] # r.english) =>
                \A i \in DOMAIN got : ~OldBefore(r, RowOf(ws, u, got[i]))

\* C27: GetOldWords(user_id, limit) returns at most limit of the user's words,
\* every never-reviewed word before every reviewed one, reviewed words by
\* last_reviewed_at ascending and ties by created_at ascending; so a word just
\* passed to a successful MarkReviewed comes after all of the user's
\* never-reviewed words and all words reviewed earlier
C27_OldWordsOrder ==
    [][/\ lastOp'.op = "get_old_words" =>
            OldOrdered(words', lastOp'.user_id, lastOp'.limit, lastOp'.res)
       /\ lastOp'.op = "mark_word_reviewed" /\ lastOp'.ok =>
            \A got \in get_old_words(words', lastOp'.user_id, 5) :
                \A i, j \in DOMAIN got :
                    /\ got[i][1] = StrLower(lastOp'.english)
                    /\ LET other == RowOf(words', lastOp'.user_id, got[j])
                       IN  \/ other.last_reviewed_at = NoTime
                           \/ Instant(other.last_reviewed_at) < Instant(clock)
                    => j < i]_vars

\* the two oldest of three words have been returned: one never reviewed, then
\* one reviewed at the first instant; the word reviewed later is left out
C27_Witness ==
    /\ lastOp.op = "get_old_words" /\ lastOp.limit = 2 /\ Len(lastOp.res) = 2
    /\ RowOf(words, 1, lastOp.res[1]).last_reviewed_at = NoTime
    /\ RowOf(words, 1, lastOp.res[2]).last_reviewed_at = [day |-> 1, idx |-> 1]
    /\ \E r \in UserRows(words, 1) :
            /\ r.last_reviewed_at = [day |-> 1, idx |-> 3]
            /\ r.created_at = [day |-> 1, idx |-> 2]

----------------------------------------------------------------------------
(* Specification of the ticks while users switch their reminders off and on *)

\* Two users with their default rows and a word each
InitSwitch ==
    /\ InitClock
    /\ user_settings = TwoUserSettings
    /\ words = WordOf(1) \cup WordOf(2)
    /\ sent_today = [k \in Keys |-> NoDate]
    /\ ticks = [t \in TickIds |-> IdleTick]
    /\ sentLog = {}
    /\ dupLog = {}
    /\ lastOp = NoOp
    /\ fired = {}
    /\ failLog = {}

NextSwitch ==
    \/ \E t \in TickIds : TickStart(t)
    \/ \E t \in TickIds : CheckSlot(t)
    \/ \E t \in TickIds : TickEnd(t)
    \/ \E t \in TickIds, ok \in BOOLEAN : SendComplete(t, ok)
    \/ AdvanceClock
    \/ \E u \in Users, b \in BOOLEAN : UpdateUserSettings(FALSE, u, None, None, Flag(b))

SpecSwitch == InitSwitch /\ [][NextSwitch]_vars

\* C28: if a user's reminders_enabled is set to false after a tick has loaded
\* its list of enabled users and before that user's send routine runs, no send
\* is issued to that user in that tick: the routine reads the settings again
\* and sends only if reminders are enabled at that moment
C28_DisabledAfterLoadNotSent ==
    [][\A t \in TickIds :
        /\ ticks[t].pc = "run" /\ ticks[t].i <= Len(ticks[t].users)
        /\ ~Enabled(CurKey(ticks[t])[1])
        /\ ticks'[t] # ticks[t]
        => /\ ticks'[t].pc = "run"
           /\ Follows(Pos(ticks[t]), Pos(ticks'[t]))
           /\ sentLog' = sentLog /\ sent_today' = sent_today]_vars

\* the tick of 09:00 has passed the morning slot of the second user, whom it
\* had loaded as enabled and who was switched off while the reminder of the
\* first user was being sent: nothing was sent to the second user
C28_Witness ==
    \E t \in TickIds :
        /\ ticks[t].pc = "run" /\ ticks[t].now = <<9, 0>>
        /\ Pos(ticks[t]) = <<2, "evening">>
        /\ ticks[t].users[2].user_id = 2
        /\ ~Enabled(2)
        /\ ticks[t].today = clock.day
        /\ <<<<1, "morning">>, clock.day>> \in sentLog
        /\ \A d \in Days : <<<<2, "morning">>, d>> \notin sentLog

----------------------------------------------------------------------------
(* The users a tick considers *)

\* The user_ids of the list tick record tk holds
Loaded(tk) == {tk.users[n].user_id : n \in DOMAIN tk.users}

\* C29: a tick considers only the users that have a row in user_settings
\* with reminders_enabled true: a user who has words but for whom neither
\* GetUserSettings nor UpdateUserSettings was ever called has no row, is in
\* no tick's list and is never sent a reminder, whatever the time of the tick
C29_OnlyUsersWithEnabledRow ==
    [][/\ \A t \in TickIds :
            ticks[t].pc = "idle" /\ ticks'[t].pc = "run" =>
                Loaded(ticks'[t]) = {u \in Users : Enabled(u)}
       /\ \A u \in Users : user_settings'[u] = NoRow =>
            /\ \A t \in TickIds : u \notin Loaded(ticks'[t])
            /\ \A s \in Slots, d \in Days : <<<<u, s>>, d>> \notin sentLog'
            /\ \A s \in Slots : sent_today'[<<u, s>>] = NoDate]_vars

\* a tick has started at 09:00 of the second day with an empty list while the
\* first user has a word and no settings row
C29_Witness ==
    \E t \in TickIds :
        /\ ticks[t].pc = "run" /\ ticks[t].users = <<>>
        /\ ticks[t].now = <<9, 0>> /\ ticks[t].today = 2
        /\ user_settings[1] = NoRow
        /\ UserRows(words, 1) # {}
        /\ sentLog = {}

----------------------------------------------------------------------------
(* The date of a dedup entry *)

\* C30: every dedup entry recorded during a tick carries the calendar date
\* that tick used as its today for the comparison of the times and the purge,
\* also when the tick starts in the last minute of a day and a send routine
\* runs after midnight; so an entry never suppresses a send on a day other
\* than the day on which its tick fired
C30_EntryDateIsTickToday ==
    [][\A t \in TickIds, k \in Keys :
        /\ ticks[t].pc = "await" /\ CurKey(ticks[t]) = k
        /\ sent_today'[k] # sent_today[k]
        => sent_today'[k] = ticks[t].today]_vars

====
